---- MODULE Spec2Model ----
(***************************************************************************)
(* Model of src/legislatie_api.py: the process-wide token cache guarded by *)
(* _token_lock, the three Flask handlers that use it (/health, /token,     *)
(* /search) run by concurrent worker threads, and the retry of the Search  *)
(* call after a cached token was refused.                                  *)
(*                                                                         *)
(* A token is a natural number: 0 is the empty string (what .strip()       *)
(* leaves of a whitespace-only GetTokenResult), 1 and 2 are non-empty        *)
(* strings.  Time is in seconds since the process started.                 *)
(***************************************************************************)
EXTENDS Integers, Sequences, FiniteSets, TLC

\* ---------------------------------------------------------------- bounds
MaxTicks == 2
MaxRequests == 3

\* ------------------------------------------------------ program constants
TOKEN_LIFETIME == 3600
None == -1

Threads == {"w1", "w2"}
Kinds == {"health", "token", "search"}
\* What upstream may answer to GetToken: "" (0) and two distinct non-empty tokens.
TokenValues == {0, 1, 2}
\* Upstream status codes of a Search response that arrived.
SearchStatuses == {200, 500, 503}

VARIABLES
  token_cache,   \* _token_cache: [token, expires_at]
  token_lock,    \* _token_lock: the thread that holds it, or None
  now,           \* what datetime.utcnow() returns
  pc,            \* each worker's position
  kind,          \* the route the worker is serving
  ret,           \* the call site get_cached_token() returns to
  token,         \* the local `token`
  cached,        \* the local `cached` / `was_cached`
  status_code,   \* response.status_code of the last Search response
  answer,        \* the JSON answer and HTTP status of the last request
  reqs,          \* requests started so far
  hist,          \* history of the current request (ghost)
  last_get,      \* result of the worker's previous get_cached_token() (ghost)
  issued,        \* the tokens upstream has answered to GetToken so far (ghost)
  \* The data of one /search request, followed through the handler:
  args,          \* request.args
  rq,            \* the handler's position and locals
  soap_body,     \* the envelope of the last do_search()
  response,      \* the last upstream Search response
  reply          \* the JSON answer

mainVars == <<token_cache, token_lock, now, pc, kind, ret, token, cached,
              status_code, answer, reqs, hist, last_get, issued>>
dataVars == <<args, rq, soap_body, response, reply>>
vars == <<mainVars, dataVars>>

NoAnswer == [success |-> FALSE, code |-> 0, results |-> FALSE, token |-> None,
             cached |-> FALSE]
Fail500 == [NoAnswer EXCEPT !.code = 500]

Ev(e, st) == [ev |-> e, st |-> st, tok |-> None]
\* The Search call that was refused and is retried, with the token it sent.
EvTok(e, st, tk) == [ev |-> e, st |-> st, tok |-> tk]

\* issued is the set of tokens fetched so far as long as upstream never
\* answered the same token twice, and Repeated from then on.
Repeated == {None}
Issue(v) == IF issued = Repeated \/ v \in issued THEN Repeated ELSE issued \cup {v}

\* Python truthiness of the cached token: None and "" are false.
Truthy(tk) == tk # None /\ tk # 0

\* A cache that still serves a token at the very second it expires.
CacheValid_AtExpiry(c, t) == Truthy(c.token) /\ c.expires_at # None /\ c.expires_at >= t

\* get_cached_token line 71: token and expires_at and expires_at > utcnow().
CacheValid(c, t) == Truthy(c.token) /\ c.expires_at # None /\ c.expires_at > t

\* get_new_token line 59: utcnow() + timedelta(seconds=TOKEN_LIFETIME).
NewExpiry(t) == t + TOKEN_LIFETIME

\* A final check that only knows the status of a refused token.
FinalOk_Only500Fails(st) == st # 500

\* search line 298: the final response is answered as an error unless its
\* status is 200.
FinalOk(st) == st = 200

\* A retry decided on the status alone.
RetryNeeded_IgnoresCache(st, wc) == st = 500

\* search line 292: response.status_code == 500 and was_cached.
RetryNeeded(st, wc) == st = 500 /\ wc

\* ----------------------------------------------------------------- strings
\* A string is a sequence of one-character strings.  request.args.get() of a
\* missing parameter is None, written AbsentStr.
AbsentStr == <<"None">>
DigitChars == {"0", "1", "2", "3", "4", "5", "6", "7", "8", "9"}
DigitVal(c) == CASE c = "0" -> 0 [] c = "1" -> 1 [] c = "2" -> 2 [] c = "3" -> 3
                 [] c = "4" -> 4 [] c = "5" -> 5 [] c = "6" -> 6 [] c = "7" -> 7
                 [] c = "8" -> 8 [] OTHER -> 9

\* Python truthiness of an optional string: None and "" are false.
PyTrue(s) == s # AbsentStr /\ s # <<>>

RECURSIVE StripLeft(_)
StripLeft(s) == IF s # <<>> /\ Head(s) = " " THEN StripLeft(Tail(s)) ELSE s
RECURSIVE StripRight(_)
StripRight(s) ==
  IF s # <<>> /\ s[Len(s)] = " " THEN StripRight(SubSeq(s, 1, Len(s) - 1)) ELSE s
\* str.strip()
Strip(s) == StripRight(StripLeft(s))

\* str.startswith()
StartsWith(s, p) == Len(p) <= Len(s) /\ SubSeq(s, 1, Len(p)) = p

\* int(s): surrounding whitespace and one sign are accepted, then digits only;
\* anything else raises ValueError.
Unsigned(s) == IF s # <<>> /\ Head(s) \in {"+", "-"} THEN Tail(s) ELSE s
IntParsable(s) ==
  LET b == Unsigned(Strip(s))
  IN  b # <<>> /\ \A i \in 1..Len(b) : b[i] \in DigitChars
RECURSIVE NatOf(_)
NatOf(s) == IF s = <<>> THEN 0
            ELSE 10 * NatOf(SubSeq(s, 1, Len(s) - 1)) + DigitVal(s[Len(s)])
PyInt(s) ==
  LET b == Strip(s)
  IN  IF Head(b) = "-" THEN 0 - NatOf(Tail(b)) ELSE NatOf(Unsigned(b))

\* xml.sax.saxutils.escape
EscapeChar(c) == CASE c = "&" -> <<"&", "a", "m", "p", ";">>
                   [] c = "<" -> <<"&", "l", "t", ";">>
                   [] c = ">" -> <<"&", "g", "t", ";">>
                   [] OTHER -> <<c>>
RECURSIVE xml_escape(_)
xml_escape(s) == IF s = <<>> THEN <<>> ELSE EscapeChar(Head(s)) \o xml_escape(Tail(s))

\* ------------------------------------------------------- build_search_body
\* An element of the envelope: nil (i:nil="true") or its text / number.
NilElem == [nil |-> TRUE, text |-> <<>>, val |-> 0]
TextElem(s) == [nil |-> FALSE, text |-> s, val |-> 0]
IntElem(n) == [nil |-> FALSE, text |-> <<>>, val |-> n]

\* lines 128-134
SearchAnElem(year) ==
  IF PyTrue(year) /\ IntParsable(year) THEN IntElem(PyInt(year)) ELSE NilElem

\* A string element written without escaping.
StrElem_Raw(s) == IF PyTrue(s) THEN TextElem(s) ELSE NilElem

\* lines 136-149
StrElem(s) == IF PyTrue(s) THEN TextElem(xml_escape(s)) ELSE NilElem

build_search_body(tk, page, per_page, title, year, number, text) ==
  [NumarPagina |-> page,
   RezultatePagina |-> per_page,
   SearchAn |-> SearchAnElem(year),
   SearchNumar |-> StrElem(number),
   SearchText |-> StrElem(text),
   SearchTitlu |-> StrElem(title),
   tokenKey |-> tk]

\* ------------------------------------------------- extract_tag, format_lege
\* A fragment between <a:Legi> and </a:Legi> gives, for each tag, the text of
\* its first <a:tag> element and of its first <tag> element (AbsentStr: none).
Tags == {"LinkHtml", "Text", "Titlu", "Numar", "TipAct", "Emitent", "DataVigoare",
         "Publicatie"}

extract_tag(xml, tag) ==
  IF xml.a[tag] # AbsentStr THEN Strip(xml.a[tag])
  ELSE IF xml.plain[tag] # AbsentStr THEN Strip(xml.plain[tag])
  ELSE <<>>

\* link.split('/')[-1]
RECURSIVE LastSegment(_)
LastSegment(s) ==
  IF \E i \in 1..Len(s) : s[i] = "/"
  THEN LastSegment(Tail(s))
  ELSE s

PreviewLen == 500

\* A record whose preview is the whole text.
format_lege_WholePreview(xml) ==
  LET link == extract_tag(xml, "LinkHtml")
      text == extract_tag(xml, "Text")
  IN  [id |-> IF link # <<>> THEN LastSegment(link) ELSE <<>>,
       title |-> extract_tag(xml, "Titlu"),
       number |-> extract_tag(xml, "Numar"),
       type |-> extract_tag(xml, "TipAct"),
       issuer |-> extract_tag(xml, "Emitent"),
       effective_date |-> extract_tag(xml, "DataVigoare"),
       publication |-> extract_tag(xml, "Publicatie"),
       text_preview |-> text,
       text_full |-> text,
       url |-> link]

format_lege(xml) ==
  LET link == extract_tag(xml, "LinkHtml")
      text == extract_tag(xml, "Text")
  IN  [id |-> IF link # <<>> THEN LastSegment(link) ELSE <<>>,
       title |-> extract_tag(xml, "Titlu"),
       number |-> extract_tag(xml, "Numar"),
       type |-> extract_tag(xml, "TipAct"),
       issuer |-> extract_tag(xml, "Emitent"),
       effective_date |-> extract_tag(xml, "DataVigoare"),
       publication |-> extract_tag(xml, "Publicatie"),
       text_preview |-> IF text # <<>>
                        THEN SubSeq(text, 1, IF Len(text) < PreviewLen THEN Len(text) ELSE PreviewLen)
                        ELSE <<>>,
       text_full |-> text,
       url |-> link]

\* search lines 306-311
ParseResults(legi) == [i \in 1..Len(legi) |-> format_lege(legi[i])]

\* search line 318: r.get('effective_date', '').startswith(year_str)
KeepYear(r, year_str) == StartsWith(r.effective_date, year_str)

\* A post-filter applied whenever a year is given.
YearFilter_IgnoresTitle(results, title, year) ==
  IF PyTrue(year)
  THEN SelectSeq(results, LAMBDA r : KeepYear(r, year))
  ELSE results

\* search lines 315-319
YearFilter(results, title, year) ==
  IF PyTrue(title) /\ PyTrue(year)
  THEN SelectSeq(results, LAMBDA r : KeepYear(r, year))
  ELSE results

\* search line 270: int(request.args.get("page", 0))
PageOf(a) == IF a.page = AbsentStr THEN 0 ELSE PyInt(a.page)
\* search line 271: min(int(request.args.get("per_page", 10)), 100)
DefaultPerPage == 10
MaxPerPage == 100
PerPageOf(a) ==
  LET n == IF a.per_page = AbsentStr THEN DefaultPerPage ELSE PyInt(a.per_page)
  IN  IF n < MaxPerPage THEN n ELSE MaxPerPage
ArgsParsable(a) ==
  /\ a.page = AbsentStr \/ IntParsable(a.page)
  /\ a.per_page = AbsentStr \/ IntParsable(a.per_page)

\* The clock advances in steps of half a token lifetime: a token stored at time
\* s is still valid at s + TickSeconds and has expired at s + 2 * TickSeconds.
TickSeconds == TOKEN_LIFETIME \div 2
Append1(t, e) == hist' = [hist EXCEPT ![t] = Append(@, e)]

\* --------------------------------------------- the inputs of the data path
MaxLegi == 3
LongTextLen == 600

NoArgs == [page |-> AbsentStr, per_page |-> AbsentStr, title |-> AbsentStr,
           year |-> AbsentStr, number |-> AbsentStr, text |-> AbsentStr]
S2014 == <<"2", "0", "1", "4">>
S2015 == <<"2", "0", "1", "5">>
TitleSamples == {AbsentStr, <<>>, <<"X">>, <<"<", "s", ">", "&">>}
YearSamples == {AbsentStr, <<>>, S2014, S2015, <<"2", "0">>, <<"x">>, <<" ">> \o S2014}
PageSamples == {AbsentStr, <<"3">>, <<"-", "1">>, <<"x">>}
PerPageSamples == {AbsentStr, <<"5">>, <<"1", "0", "1">>, <<"0">>, <<"x">>}
TextSamples == {AbsentStr, <<"a", "&", "<", ">">>}
\* The query strings tried: the filters vary together, and so does the paging.
ArgSamples ==
  {[NoArgs EXCEPT !.title = ti, !.year = y] : ti \in TitleSamples, y \in YearSamples}
  \cup {[NoArgs EXCEPT !.page = pg, !.per_page = pp] : pg \in PageSamples, pp \in PerPageSamples}
  \cup {[NoArgs EXCEPT !.number = n, !.text = tx] : n \in TextSamples, tx \in TextSamples}

\* Tokens as upstream spells them ([^<]+, stripped).
STokens == {<<"t">>, <<"t", "&", ">">>}

\* A Text of LongTextLen characters whose tail differs from its first
\* PreviewLen characters, and a short one padded with blanks.
LongText == [i \in 1..LongTextLen |-> IF i <= PreviewLen THEN "a" ELSE "b"]
ShortText == <<" ", "a", "b", " ">>

\* Fragments: the spec's three dated records under <a:...> tags (the first with
\* a long Text, the second with a short one, the third without a Titlu element
\* and with a date padded with a blank), and one under plain tags.
Frag(titlu, data, text) ==
  [a |-> [tag \in Tags |-> CASE tag = "Titlu" -> titlu
                             [] tag = "DataVigoare" -> data
                             [] tag = "Text" -> text
                             [] OTHER -> AbsentStr],
   plain |-> [tag \in Tags |-> AbsentStr]]
PlainFrag(titlu, data) ==
  [a |-> [tag \in Tags |-> AbsentStr],
   plain |-> [tag \in Tags |-> CASE tag = "Titlu" -> titlu
                                 [] tag = "DataVigoare" -> data
                                 [] OTHER -> AbsentStr]]
Date(y, m, d) == y \o <<"-">> \o m \o <<"-">> \o d
FragSamples ==
  {Frag(<<"X">>, Date(S2014, <<"0", "1">>, <<"0", "1">>), LongText),
   Frag(<<"X">>, Date(S2015, <<"0", "6">>, <<"0", "1">>), ShortText),
   Frag(AbsentStr, <<" ">> \o Date(S2014, <<"0", "9">>, <<"0", "9">>), AbsentStr),
   PlainFrag(<<"Y">>, Date(S2014, <<"0", "9">>, <<"0", "9">>))}
LegiLists == UNION {[1..n -> FragSamples] : n \in 0..MaxLegi}
\* A 200 response carries any list; an error response an empty body or one that
\* happens to hold a fragment.
ErrorBodies == {l \in LegiLists : Len(l) = 0 \/ (Len(l) = 1 /\ l[1].a["Titlu"] = <<"X">>)}
Responses ==
  [status_code : {200}, legi : LegiLists]
  \cup [status_code : SearchStatuses \ {200}, legi : ErrorBodies]

NoBody == build_search_body(<<>>, 0, 0, AbsentStr, AbsentStr, AbsentStr, AbsentStr)
NoResponse == [status_code |-> None, legi |-> <<>>]
NoReply == [success |-> FALSE, code |-> 0, total |-> 0, page |-> 0, per_page |-> 0,
            results |-> <<>>, filtering |-> FALSE]
FailReply == [NoReply EXCEPT !.code = 500]
\* err (ghost) names what ended the request early: "args" (ValueError),
\* "token" (get_cached_token raised), "network" (requests.post raised),
\* "soap" (the final status).
NoRq == [pos |-> "off", page |-> 0, per_page |-> 0, token |-> <<>>,
         was_cached |-> FALSE, calls |-> 0, err |-> ""]

MainInit ==
  /\ token_cache = [token |-> None, expires_at |-> None]
  /\ token_lock = "free"
  /\ now = 0
  /\ pc = [t \in Threads |-> "idle"]
  /\ kind = [t \in Threads |-> "none"]
  /\ ret = [t \in Threads |-> "none"]
  /\ token = [t \in Threads |-> None]
  /\ cached = [t \in Threads |-> FALSE]
  /\ status_code = [t \in Threads |-> None]
  /\ answer = [t \in Threads |-> NoAnswer]
  /\ reqs = 0
  /\ hist = [t \in Threads |-> <<>>]
  /\ last_get = [t \in Threads |-> <<>>]
  /\ issued = {}

\* The workers and the token cache; the request data is not followed.
Init ==
  /\ MainInit
  /\ args = NoArgs
  /\ rq = NoRq
  /\ soap_body = NoBody
  /\ response = NoResponse
  /\ reply = NoReply

\* One /search request with its data; get_cached_token() is its return value.
InitSearch ==
  /\ MainInit
  /\ args \in ArgSamples
  /\ rq = [NoRq EXCEPT !.pos = "args"]
  /\ soap_body = NoBody
  /\ response = NoResponse
  /\ reply = NoReply

\* ------------------------------------------------------------ the clock
Tick ==
  /\ UNCHANGED <<dataVars, issued>>
  /\ now < MaxTicks * TickSeconds
  /\ now' = now + TickSeconds
  /\ UNCHANGED <<token_cache, token_lock, pc, kind, ret, token, cached,
                 status_code, answer, reqs, hist, last_get>>

\* ------------------------------------------------- leaving a handler
\* The handler returns its JSON answer; the worker's locals die with the frame.
Finish(t, ans) ==
  /\ pc' = [pc EXCEPT ![t] = "idle"]
  /\ answer' = [answer EXCEPT ![t] = ans]
  /\ token' = [token EXCEPT ![t] = None]
  /\ cached' = [cached EXCEPT ![t] = FALSE]
  /\ status_code' = [status_code EXCEPT ![t] = None]
  /\ ret' = [ret EXCEPT ![t] = "none"]

\* get_cached_token() returns (tk, c) to its call site: health line 226,
\* token_endpoint line 245, search line 288 or search line 295 (`token, _ =`,
\* which keeps was_cached).
Return(t, tk, c) ==
  IF ret[t] = "health"
  THEN Finish(t, [NoAnswer EXCEPT !.success = TRUE, !.code = 200, !.cached = c])
  ELSE /\ pc' = [pc EXCEPT ![t] = CASE ret[t] = "token" -> "t_lock"
                                    [] ret[t] = "search1" -> "do_search1"
                                    [] OTHER -> "do_search2"]
       /\ token' = [token EXCEPT ![t] = tk]
       /\ cached' = [cached EXCEPT ![t] = IF ret[t] = "search2" THEN @ ELSE c]
       /\ UNCHANGED <<answer, status_code, ret>>

\* search lines 298-303 and 305-340: the answer to the final response.
SearchAnswer(st) ==
  IF ~FinalOk(st) THEN Fail500
  ELSE [NoAnswer EXCEPT !.success = TRUE, !.code = 200, !.results = TRUE]

\* ------------------------------------------------------------ requests
StartRequest(t) ==
  /\ UNCHANGED <<dataVars, issued>>
  /\ pc[t] = "idle"
  /\ reqs < MaxRequests
  /\ \E k \in Kinds :
       /\ kind' = [kind EXCEPT ![t] = k]
       /\ ret' = [ret EXCEPT ![t] = IF k = "search" THEN "search1" ELSE k]
       /\ pc' = [pc EXCEPT ![t] = IF k = "search" THEN "s_args" ELSE "gct_lock"]
  /\ reqs' = reqs + 1
  /\ hist' = [hist EXCEPT ![t] = <<>>]
  /\ answer' = [answer EXCEPT ![t] = NoAnswer]
  /\ UNCHANGED <<token_cache, token_lock, now, token, cached, status_code, last_get>>

\* search lines 270-285: int() of page or per_page may raise ValueError, which
\* the handler's except turns into the 500 answer.
SearchArgs(t) ==
  /\ UNCHANGED <<dataVars, issued>>
  /\ pc[t] = "s_args"
  /\ \/ /\ pc' = [pc EXCEPT ![t] = "gct_lock"]
        /\ UNCHANGED <<answer, token, cached, status_code, ret, hist>>
     \/ /\ Finish(t, Fail500)
        /\ Append1(t, Ev("bad_args", None))
  /\ UNCHANGED <<token_cache, token_lock, now, kind, reqs, last_get>>

\* ---------------------------------------------------- get_cached_token
\* line 67: with _token_lock
GctLock(t) ==
  /\ UNCHANGED <<dataVars, issued>>
  /\ pc[t] = "gct_lock"
  /\ token_lock = "free"
  /\ token_lock' = t
  /\ pc' = [pc EXCEPT ![t] = "gct_check"]
  /\ UNCHANGED <<token_cache, now, kind, ret, token, cached, status_code,
                 answer, reqs, hist, last_get>>

\* lines 68-74: the read, the test, and leaving the with block either by the
\* return of line 72 or by falling through to get_new_token().
GctCheck(t) ==
  /\ UNCHANGED <<dataVars, issued>>
  /\ pc[t] = "gct_check"
  /\ token_lock' = "free"
  /\ IF CacheValid(token_cache, now)
     THEN /\ Return(t, token_cache.token, TRUE)
          /\ Append1(t, Ev("hit", None))
          /\ last_get' = [last_get EXCEPT ![t] = <<token_cache.token, token_cache.expires_at>>]
     ELSE /\ pc' = [pc EXCEPT ![t] = "gnt_post"]
          /\ Append1(t, Ev(IF Truthy(token_cache.token) /\ token_cache.expires_at # None THEN "miss_expired" ELSE "miss_empty", None))
          /\ UNCHANGED <<token, cached, status_code, answer, ret, last_get>>
  /\ UNCHANGED <<token_cache, now, kind, reqs>>

\* -------------------------------------------------------- get_new_token
\* A fetch that drops the cached token when it fails.
GetNewTokenPost_ClearsOnFailure(t) ==
  /\ UNCHANGED dataVars
  /\ pc[t] = "gnt_post"
  /\ \/ /\ Append1(t, Ev("fetch_fail", None))
        /\ Finish(t, Fail500)
        /\ last_get' = [last_get EXCEPT ![t] = <<>>]
        /\ token_cache' = [token |-> None, expires_at |-> None]
        /\ UNCHANGED issued
     \/ /\ \E v \in TokenValues :
             /\ token' = [token EXCEPT ![t] = v]
             /\ issued' = Issue(v)
        /\ Append1(t, Ev("fetch", None))
        /\ pc' = [pc EXCEPT ![t] = "gnt_lock"]
        /\ UNCHANGED <<answer, cached, status_code, ret, last_get, token_cache>>
  /\ UNCHANGED <<token_lock, now, kind, reqs>>

\* lines 46-55: the POST and what it answers.  A network error, a status other
\* than 200 and a body without <GetTokenResult> all raise; the caller's except
\* turns that into the 500 answer.
GetNewTokenPost(t) ==
  /\ UNCHANGED dataVars
  /\ pc[t] = "gnt_post"
  /\ \/ /\ \E why \in {"network", "status", "no_tag"} :
             Append1(t, Ev("fetch_fail", None))
        /\ Finish(t, Fail500)
        /\ last_get' = [last_get EXCEPT ![t] = <<>>]
        /\ UNCHANGED issued
     \/ /\ \E v \in TokenValues :
             /\ token' = [token EXCEPT ![t] = v]
             /\ issued' = Issue(v)
        /\ Append1(t, Ev("fetch", None))
        /\ pc' = [pc EXCEPT ![t] = "gnt_lock"]
        /\ UNCHANGED <<answer, cached, status_code, ret, last_get>>
  /\ UNCHANGED <<token_cache, token_lock, now, kind, reqs>>

\* A store that enters its block without waiting for the lock.
GntLock_NoWait(t) ==
  /\ UNCHANGED <<dataVars, issued>>
  /\ pc[t] = "gnt_lock"
  /\ token_lock' = t
  /\ pc' = [pc EXCEPT ![t] = "gnt_set_token"]
  /\ UNCHANGED <<token_cache, now, kind, ret, token, cached, status_code,
                 answer, reqs, hist, last_get>>

\* line 57: with _token_lock
GntLock(t) ==
  /\ UNCHANGED <<dataVars, issued>>
  /\ pc[t] = "gnt_lock"
  /\ token_lock = "free"
  /\ token_lock' = t
  /\ pc' = [pc EXCEPT ![t] = "gnt_set_token"]
  /\ UNCHANGED <<token_cache, now, kind, ret, token, cached, status_code,
                 answer, reqs, hist, last_get>>

\* line 58
GntSetToken(t) ==
  /\ UNCHANGED <<dataVars, issued>>
  /\ pc[t] = "gnt_set_token"
  /\ token_cache' = [token_cache EXCEPT !.token = token[t]]
  /\ pc' = [pc EXCEPT ![t] = "gnt_set_exp"]
  /\ UNCHANGED <<token_lock, now, kind, ret, token, cached, status_code,
                 answer, reqs, hist, last_get>>

\* lines 59-62 and the return of line 74: the expiry is written, the lock is
\* released and (token, False) goes back to the call site.
GntSetExp(t) ==
  /\ UNCHANGED <<dataVars, issued>>
  /\ pc[t] = "gnt_set_exp"
  /\ token_cache' = [token_cache EXCEPT !.expires_at = NewExpiry(now)]
  /\ token_lock' = "free"
  /\ Return(t, token[t], FALSE)
  /\ Append1(t, Ev("store", None))
  /\ last_get' = [last_get EXCEPT ![t] = <<token[t], NewExpiry(now)>>]
  /\ UNCHANGED <<now, kind, reqs>>

\* ------------------------------------------------------ invalidate_token
\* An invalidate_token() that returns without touching the cache.
InvLock_NoInvalidate(t) ==
  /\ UNCHANGED <<dataVars, issued>>
  /\ pc[t] = "inv_lock"
  /\ pc' = [pc EXCEPT ![t] = "gct_lock"]
  /\ ret' = [ret EXCEPT ![t] = "search2"]
  /\ Append1(t, Ev("invalidate", None))
  /\ last_get' = [u \in Threads |-> <<>>]
  /\ UNCHANGED <<token_cache, token_lock, now, kind, token, cached, status_code,
                 answer, reqs>>

\* line 79: with _token_lock
InvLock(t) ==
  /\ UNCHANGED <<dataVars, issued>>
  /\ pc[t] = "inv_lock"
  /\ token_lock = "free"
  /\ token_lock' = t
  /\ pc' = [pc EXCEPT ![t] = "inv_set_token"]
  /\ UNCHANGED <<token_cache, now, kind, ret, token, cached, status_code,
                 answer, reqs, hist, last_get>>

\* An invalidate that clears the expiry only.
InvSetToken_KeepsToken(t) ==
  /\ UNCHANGED <<dataVars, issued>>
  /\ pc[t] = "inv_set_token"
  /\ pc' = [pc EXCEPT ![t] = "inv_set_exp"]
  /\ UNCHANGED <<token_cache, token_lock, now, kind, ret, token, cached, status_code,
                 answer, reqs, hist, last_get>>

\* line 80
InvSetToken(t) ==
  /\ UNCHANGED <<dataVars, issued>>
  /\ pc[t] = "inv_set_token"
  /\ token_cache' = [token_cache EXCEPT !.token = None]
  /\ pc' = [pc EXCEPT ![t] = "inv_set_exp"]
  /\ UNCHANGED <<token_lock, now, kind, ret, token, cached, status_code,
                 answer, reqs, hist, last_get>>

\* An invalidate that leaves the expiry in place.
InvSetExp_KeepsExpiry(t) ==
  /\ UNCHANGED <<dataVars, issued>>
  /\ pc[t] = "inv_set_exp"
  /\ token_lock' = "free"
  /\ pc' = [pc EXCEPT ![t] = "gct_lock"]
  /\ ret' = [ret EXCEPT ![t] = "search2"]
  /\ Append1(t, Ev("invalidate", None))
  /\ last_get' = [u \in Threads |-> <<>>]
  /\ UNCHANGED <<token_cache, now, kind, token, cached, status_code, answer, reqs>>

\* lines 81-82, then search line 295 calls get_cached_token() again.
InvSetExp(t) ==
  /\ UNCHANGED <<dataVars, issued>>
  /\ pc[t] = "inv_set_exp"
  /\ token_cache' = [token_cache EXCEPT !.expires_at = None]
  /\ token_lock' = "free"
  /\ pc' = [pc EXCEPT ![t] = "gct_lock"]
  /\ ret' = [ret EXCEPT ![t] = "search2"]
  /\ Append1(t, Ev("invalidate", None))
  /\ last_get' = [u \in Threads |-> <<>>]
  /\ UNCHANGED <<now, kind, token, cached, status_code, answer, reqs>>

\* -------------------------------------------------------- token_endpoint
\* line 246: with _token_lock
TokLock(t) ==
  /\ UNCHANGED <<dataVars, issued>>
  /\ pc[t] = "t_lock"
  /\ token_lock = "free"
  /\ token_lock' = t
  /\ pc' = [pc EXCEPT ![t] = "t_expires"]
  /\ UNCHANGED <<token_cache, now, kind, ret, token, cached, status_code,
                 answer, reqs, hist, last_get>>

\* A /token handler whose TypeError leaves the lock taken.
TokExpires_KeepsLockOnError(t) ==
  /\ UNCHANGED <<dataVars, issued>>
  /\ pc[t] = "t_expires"
  /\ IF cached[t] /\ token_cache.expires_at = None
     THEN Finish(t, Fail500) /\ UNCHANGED token_lock
     ELSE /\ token_lock' = "free"
          /\ Finish(t, [NoAnswer EXCEPT !.success = TRUE, !.code = 200,
                                          !.token = token[t], !.cached = cached[t]])
  /\ UNCHANGED <<token_cache, now, kind, reqs, hist, last_get>>

\* lines 247-257: with cached true and the expiry cleared meanwhile,
\* None - datetime raises TypeError; the with block releases the lock and the
\* except answers 500.
TokExpires(t) ==
  /\ UNCHANGED <<dataVars, issued>>
  /\ pc[t] = "t_expires"
  /\ token_lock' = "free"
  /\ IF cached[t] /\ token_cache.expires_at = None
     THEN Finish(t, Fail500)
     ELSE Finish(t, [NoAnswer EXCEPT !.success = TRUE, !.code = 200,
                                     !.token = token[t], !.cached = cached[t]])
  /\ UNCHANGED <<token_cache, now, kind, reqs, hist, last_get>>

\* ---------------------------------------------------------------- search
\* lines 289-303: the first Search call.  requests.post may raise (the except
\* answers 500); otherwise the status decides between the retry path and the
\* answer.
DoSearch(t) ==
  /\ UNCHANGED <<dataVars, issued>>
  /\ pc[t] = "do_search1"
  /\ \/ /\ Append1(t, Ev("search", None))
        /\ Finish(t, Fail500)
     \/ \E st \in SearchStatuses :
          /\ IF RetryNeeded(st, cached[t])
             THEN /\ Append1(t, EvTok("search", st, token[t]))
                  /\ pc' = [pc EXCEPT ![t] = "inv_lock"]
                  /\ status_code' = [status_code EXCEPT ![t] = st]
                  /\ UNCHANGED <<answer, token, cached, ret>>
             ELSE /\ Append1(t, Ev("search", st))
                  /\ Finish(t, SearchAnswer(st))
  /\ UNCHANGED <<token_cache, token_lock, now, kind, reqs, last_get>>

\* lines 296-303: the second Search call; its response is final.
DoSearchRetry(t) ==
  /\ UNCHANGED <<dataVars, issued>>
  /\ pc[t] = "do_search2"
  /\ \/ /\ Append1(t, Ev("search", None))
        /\ Finish(t, Fail500)
     \/ \E st \in SearchStatuses :
          /\ Append1(t, Ev("search", st))
          /\ Finish(t, SearchAnswer(st))
  /\ UNCHANGED <<token_cache, token_lock, now, kind, reqs, last_get>>

Step(t) ==
  \/ StartRequest(t)
  \/ SearchArgs(t)
  \/ GctLock(t)
  \/ GctCheck(t)
  \/ GetNewTokenPost(t)
  \/ GntLock(t)
  \/ GntSetToken(t)
  \/ GntSetExp(t)
  \/ InvLock(t)
  \/ InvSetToken(t)
  \/ InvSetExp(t)
  \/ TokLock(t)
  \/ TokExpires(t)
  \/ DoSearch(t)
  \/ DoSearchRetry(t)

Next == Tick \/ \E t \in Threads : Step(t)

Spec == Init /\ [][Next]_vars

\* ------------------------------------------- the data of one /search request
Fail(why) ==
  /\ reply' = FailReply
  /\ rq' = [rq EXCEPT !.pos = "done", !.err = why]

BodyFor(tk) ==
  build_search_body(tk, rq.page, rq.per_page, args.title, args.year, args.number, args.text)

\* search lines 270-285
SParseArgs ==
  /\ UNCHANGED mainVars
  /\ rq.pos = "args"
  /\ IF ArgsParsable(args)
     THEN /\ rq' = [rq EXCEPT !.pos = "token", !.page = PageOf(args),
                              !.per_page = PerPageOf(args)]
          /\ UNCHANGED reply
     ELSE Fail("args")
  /\ UNCHANGED <<args, soap_body, response>>

\* search line 288
SGetToken ==
  /\ UNCHANGED mainVars
  /\ rq.pos = "token"
  /\ \/ \E tk \in STokens, c \in BOOLEAN :
          /\ rq' = [rq EXCEPT !.pos = "search", !.token = tk, !.was_cached = c]
          /\ UNCHANGED reply
     \/ Fail("token")
  /\ UNCHANGED <<args, soap_body, response>>

\* search lines 289-292 (do_search lines 171-187)
SDoSearch ==
  /\ UNCHANGED mainVars
  /\ rq.pos = "search"
  /\ soap_body' = BodyFor(rq.token)
  /\ \/ /\ Fail("network")
        /\ UNCHANGED response
     \/ \E r \in Responses :
          /\ response' = r
          /\ rq' = [rq EXCEPT !.calls = @ + 1,
                              !.pos = IF RetryNeeded(r.status_code, rq.was_cached)
                                      THEN "retry" ELSE "respond"]
          /\ UNCHANGED reply
  /\ UNCHANGED args

\* search lines 293-296
SRetry ==
  /\ UNCHANGED mainVars
  /\ rq.pos = "retry"
  /\ \/ /\ Fail("token")
        /\ UNCHANGED <<soap_body, response>>
     \/ \E tk \in STokens :
          /\ soap_body' = BodyFor(tk)
          /\ \/ /\ reply' = FailReply
                /\ rq' = [rq EXCEPT !.pos = "done", !.err = "network", !.token = tk]
                /\ UNCHANGED response
             \/ \E r \in Responses :
                  /\ response' = r
                  /\ rq' = [rq EXCEPT !.calls = @ + 1, !.token = tk, !.pos = "respond"]
                  /\ UNCHANGED reply
  /\ UNCHANGED args

\* search lines 298-340
SRespond ==
  /\ UNCHANGED mainVars
  /\ rq.pos = "respond"
  /\ IF ~FinalOk(response.status_code)
     THEN Fail("soap")
     ELSE LET results == YearFilter(ParseResults(response.legi), args.title, args.year)
          IN  /\ reply' = [success |-> TRUE, code |-> 200, total |-> Len(results),
                           page |-> rq.page, per_page |-> rq.per_page,
                           results |-> results,
                           filtering |-> PyTrue(args.title) /\ PyTrue(args.year)]
              /\ rq' = [rq EXCEPT !.pos = "done"]
  /\ UNCHANGED <<args, soap_body, response>>

NextSearch == SParseArgs \/ SGetToken \/ SDoSearch \/ SRetry \/ SRespond

SpecSearch == InitSearch /\ [][NextSearch]_vars

\* ================================================================ claims
\* Reading the history of a worker's current (or just answered) request.
Count(t, e) == Cardinality({i \in 1..Len(hist[t]) : hist[t][i].ev = e})
LastEv(t) == hist[t][Len(hist[t])]
Answered(t, k) == pc[t] = "idle" /\ kind[t] = k /\ hist[t] # <<>>
FirstCached(t) == Len(hist[t]) >= 1 /\ hist[t][1].ev = "hit"
\* The first Search call was answered with status st.
FirstStatus(t, st) ==
  \E i \in 1..Len(hist[t]) :
    /\ hist[t][i].ev = "search" /\ hist[t][i].st = st
    /\ \A j \in 1..(i - 1) : hist[t][j].ev # "search"

\* C1 (as claimed): a /search request that got its token from the cache and
\* whose first Search response has any status other than 200 invalidates the
\* cache once, asks for a token again and, having got one, calls Search a
\* second time.
C1_RetryOnAnyNon200 ==
  \A t \in Threads :
    (/\ Answered(t, "search")
     /\ FirstCached(t)
     /\ \E st \in SearchStatuses \ {200} : FirstStatus(t, st))
    => /\ Count(t, "invalidate") = 1
       /\ Count(t, "hit") + Count(t, "miss_empty") + Count(t, "miss_expired") = 2
       /\ Count(t, "fetch_fail") = 0 => Count(t, "search") = 2

\* C2: a /search request calls Search upstream at most twice and invalidates at
\* most once; a second call happens only when the first token came from the
\* cache; after the second call the request is answered, whatever its status.
C2_RetryBound ==
  \A t \in Threads :
    /\ Count(t, "search") <= 2
    /\ Count(t, "invalidate") <= 1
    /\ (Count(t, "search") = 2 \/ pc[t] = "do_search2" \/ Count(t, "invalidate") = 1)
         => FirstCached(t)
    /\ Count(t, "search") = 2
         => /\ pc[t] = "idle"
            /\ LastEv(t).ev = "search"
            /\ ~FinalOk(LastEv(t).st) => answer[t] = Fail500

\* A request whose retry failed as well.
C2_Witness ==
  \E t \in Threads :
    /\ Answered(t, "search")
    /\ Count(t, "search") = 2
    /\ LastEv(t) = Ev("search", 500)
    /\ answer[t] = Fail500

\* Worker t's step out of position p.
Leaves(t, p) == pc[t] = p /\ pc'[t] # p

\* C3 (as claimed): when a worker calls get_cached_token() again, no
\* invalidate having happened since its previous call returned, and before
\* the expiry stored with the token that call returned, the call answers from
\* the cache (no fetch) with that same token.
C3_SecondCallCached ==
  [][\A t \in Threads :
       (/\ Leaves(t, "gct_check")
        /\ last_get[t] # <<>>
        /\ now < last_get[t][2])
       => /\ pc'[t] # "gnt_post"
          /\ last_get'[t] # <<>>
          /\ last_get'[t][1] = last_get[t][1]]_vars

\* C6 (as claimed): at most one worker at a time is between a cache miss and
\* the answer to its GetToken POST.
C6_NoDoubleFetch == Cardinality({t \in Threads : pc[t] = "gnt_post"}) <= 1

\* C6 (amended): the check and the store of get_cached_token() each run with
\* the token lock held, so at most one worker at a time is inside a check or a
\* store; the fetch between them runs with the lock released, so several
\* workers that missed may be fetching at once.
C6_LockedCheckAndStore ==
  /\ \A t \in Threads :
       /\ pc[t] \in {"gct_check", "gnt_set_token", "gnt_set_exp"} => token_lock = t
       /\ pc[t] = "gnt_post" => token_lock # t
  /\ Cardinality({t \in Threads : pc[t] \in {"gct_check", "gnt_set_token", "gnt_set_exp"}}) <= 1

\* Two workers missed on the same empty cache and are both fetching.
C6_Witness ==
  /\ \A t \in Threads : pc[t] = "gnt_post" /\ LastEv(t).ev = "miss_empty"
  /\ token_cache.token = None

\* Every fetch or failed fetch directly follows a miss, and every store
\* directly follows its fetch: one POST per miss.
OneFetchPerMiss(h) ==
  \A i \in 1..Len(h) :
    /\ h[i].ev \in {"fetch", "fetch_fail"} => i > 1 /\ h[i - 1].ev \in {"miss_empty", "miss_expired"}
    /\ h[i].ev = "store" => i > 1 /\ h[i - 1].ev = "fetch"
    /\ (h[i].ev \in {"miss_empty", "miss_expired"} /\ i < Len(h))
         => h[i + 1].ev \in {"fetch", "fetch_fail"}

\* C4: a get_cached_token() call that finds a token whose expiry has passed
\* (expires_at <= now) goes on to fetch, once; the store writes the fetched
\* token with expiry now + TOKEN_LIFETIME and the call returns not-cached; the
\* passing of time alone never changes the cache, and the expired token stays
\* in the slot until a store or an invalidate.
C4_ExpiryRefetch ==
  [][/\ now' # now => token_cache' = token_cache
     /\ \A t \in Threads :
          /\ (/\ Leaves(t, "gct_check")
              /\ Truthy(token_cache.token)
              /\ token_cache.expires_at # None
              /\ token_cache.expires_at <= now)
             => /\ pc'[t] = "gnt_post"
                /\ token_cache' = token_cache
          /\ OneFetchPerMiss(hist'[t])
          /\ Leaves(t, "gnt_set_exp")
             => /\ token_cache' = [token |-> token[t], expires_at |-> now + TOKEN_LIFETIME]
                /\ ret[t] \in {"token", "search1"} => ~cached'[t] /\ token'[t] = token[t]
                /\ ret[t] = "health" => ~answer'[t].cached]_vars

\* A call that found an expired token has fetched, stored and returned.
C4_Witness ==
  \E t \in Threads : \E i \in 1..Len(hist[t]) :
    /\ hist[t][i].ev = "miss_expired"
    /\ i + 2 <= Len(hist[t])
    /\ hist[t][i + 2].ev = "store"
    /\ token_cache.expires_at = now + TOKEN_LIFETIME

\* C5: when invalidate_token() is done the cache holds neither token nor
\* expiry, whatever it held; a get_cached_token() call that finds the cache so
\* cleared goes on to fetch, and returns not-cached (never from the cache).
C5_Invalidate ==
  [][\A t \in Threads :
       /\ Leaves(t, "inv_set_exp")
          => token_cache' = [token |-> None, expires_at |-> None]
       /\ (Leaves(t, "gct_check") /\ token_cache = [token |-> None, expires_at |-> None])
          => /\ pc'[t] = "gnt_post"
             /\ LastEv(t)' = Ev("miss_empty", None)
       /\ (Leaves(t, "gnt_set_exp") /\ ret[t] = "search2")
          => token'[t] = token[t] /\ LastEv(t)' = Ev("store", None)]_vars

\* The request that invalidated a live token missed on its next call, fetched
\* and went on with the fetched token.
C5_Witness ==
  \E t \in Threads :
    /\ pc[t] = "do_search2"
    /\ Len(hist[t]) = 6
    /\ hist[t][3].ev = "invalidate"
    /\ hist[t][4].ev = "miss_empty"
    /\ hist[t][5].ev = "fetch"
    /\ hist[t][6].ev = "store"

\* C7: the step in which a GetToken fetch fails (network error, status other
\* than 200, no GetTokenResult) raises - the request is answered 500 - and
\* leaves the cache as it is; and no step the worker took in that call, from
\* taking the lock to the failure, wrote to the cache.
C7_FetchFailureKeepsCache ==
  [][\A t \in Threads :
       /\ (pc[t] \in {"gct_lock", "gct_check", "gnt_post"} /\ pc'[t] # pc[t])
          => token_cache' = token_cache
       /\ (Leaves(t, "gnt_post") /\ pc'[t] # "gnt_lock")
          => /\ pc'[t] = "idle"
             /\ answer'[t] = Fail500
             /\ LastEv(t)' = Ev("fetch_fail", None)
             /\ hist[t] # <<>> /\ LastEv(t).ev \in {"miss_empty", "miss_expired"}]_vars

\* A fetch failed while the cache held a token, which is still there.
C7_Witness ==
  \E t \in Threads :
    /\ pc[t] = "idle"
    /\ hist[t] # <<>>
    /\ LastEv(t).ev = "fetch_fail"
    /\ Len(hist[t]) >= 2 /\ hist[t][Len(hist[t]) - 1].ev = "miss_expired"
    /\ Truthy(token_cache.token)

\* ------------------------------------------------ claims on the request data
\* The request has been answered.
Done == rq.pos = "done"
\* The last Search call was answered (requests.post did not raise, and no
\* token fetch failed after it).
FinalResponse == rq.calls >= 1 /\ rq.err \notin {"network", "token"}

\* C8: a /search request whose token fetch failed, or whose final Search
\* response has a status other than 200, is answered success = false with
\* HTTP 500 and without any record, whatever the response body holds.
C8_NoPartialSuccess ==
  (Done /\ (rq.err = "token" \/ (FinalResponse /\ response.status_code # 200)))
  => /\ ~reply.success
     /\ reply.code = 500
     /\ reply.results = <<>>
     /\ reply.total = 0

\* The retry was refused as well, with a body that holds a fragment.
C8_Witness ==
  /\ Done
  /\ rq.calls = 2
  /\ response.status_code = 503
  /\ Len(response.legi) = 1
  /\ reply = FailReply

\* The records of the final response, before the post-filter.
Upstream == ParseResults(response.legi)
Matching(year) == {i \in 1..Len(Upstream) : StartsWith(Upstream[i].effective_date, year)}

\* C9: in a successful search with both a title and a year, the results are
\* exactly the upstream records whose effective_date starts with the year
\* string, in upstream order; without a title or without a year the results
\* are all the upstream records.
C9_YearPostFilter ==
  (Done /\ reply.success)
  => IF PyTrue(args.title) /\ PyTrue(args.year)
     THEN /\ \A j \in 1..Len(reply.results) :
               StartsWith(reply.results[j].effective_date, args.year)
          /\ \A i \in Matching(args.year) :
               \E j \in 1..Len(reply.results) : reply.results[j] = Upstream[i]
          /\ Len(reply.results) = Cardinality(Matching(args.year))
          /\ reply.total = Len(reply.results)
     ELSE reply.results = Upstream

\* The spec's example: dates 2014-01-01, 2015-06-01, 2014-09-09 and year 2014
\* give the first and the third record.
C9_Witness ==
  /\ Done /\ reply.success
  /\ args.title = <<"X">> /\ args.year = S2014
  /\ Len(Upstream) = 3
  /\ Upstream[1].effective_date = Date(S2014, <<"0", "1">>, <<"0", "1">>)
  /\ Upstream[2].effective_date = Date(S2015, <<"0", "6">>, <<"0", "1">>)
  /\ Upstream[3].effective_date = Date(S2014, <<"0", "9">>, <<"0", "9">>)
  /\ reply.results = <<Upstream[1], Upstream[3]>>

\* C10 (as claimed): with a title and a year in the query, no envelope sent
\* upstream carries the year (SearchAn is nil).
C10_YearNotSentWithTitle ==
  (rq.calls >= 1 /\ PyTrue(args.title) /\ PyTrue(args.year))
  => soap_body.SearchAn.nil

\* The query's per_page / page is below 1 / negative, or int() refuses it.
PerPageLowOrBad ==
  args.per_page # AbsentStr /\ (~IntParsable(args.per_page) \/ PyInt(args.per_page) < 1)
PageNegOrBad ==
  args.page # AbsentStr /\ (~IntParsable(args.page) \/ PyInt(args.page) < 0)
\* The arguments have been read.
ArgsRead == rq.pos # "args"

\* C11 (as claimed): a per_page above 100 goes upstream as 100; a per_page
\* below 1 or unparsable does not fail the request and goes upstream as the
\* default 10; every RezultatePagina sent is within 1..100.
C11_PerPageClamped ==
  ArgsRead
  => /\ PerPageLowOrBad => rq.err # "args"
     /\ rq.calls >= 1
        => /\ soap_body.RezultatePagina \in 1..MaxPerPage
           /\ (IntParsable(args.per_page) /\ PyInt(args.per_page) > MaxPerPage)
                => soap_body.RezultatePagina = MaxPerPage
           /\ PerPageLowOrBad => soap_body.RezultatePagina = DefaultPerPage

\* C12 (as claimed): a negative or unparsable page does not fail the request;
\* page 0 goes upstream and is echoed in the answer.
C12_PageDefaulted ==
  (ArgsRead /\ PageNegOrBad)
  => /\ rq.err # "args"
     /\ rq.calls >= 1 => soap_body.NumarPagina = 0
     /\ (Done /\ reply.success) => reply.page = 0

\* C13 (as claimed): no record of a successful answer has an empty title.
C13_TitlelessDropped ==
  (Done /\ reply.success)
  => \A j \in 1..Len(reply.results) : reply.results[j].title # <<>>

\* Text that cannot open or close an element: no < or >, and every & starts
\* one of the three entities.
EntityAt(s, i) ==
  \E e \in {<<"&", "a", "m", "p", ";">>, <<"&", "l", "t", ";">>, <<"&", "g", "t", ";">>} :
    i + Len(e) - 1 <= Len(s) /\ SubSeq(s, i, i + Len(e) - 1) = e
IsEscaped(s) ==
  \A i \in 1..Len(s) : s[i] \notin {"<", ">"} /\ (s[i] = "&" => EntityAt(s, i))
\* Reading escaped text back.
RECURSIVE Unescape(_)
Unescape(s) ==
  IF s = <<>> THEN <<>>
  ELSE IF StartsWith(s, <<"&", "a", "m", "p", ";">>) THEN <<"&">> \o Unescape(SubSeq(s, 6, Len(s)))
  ELSE IF StartsWith(s, <<"&", "l", "t", ";">>) THEN <<"<">> \o Unescape(SubSeq(s, 5, Len(s)))
  ELSE IF StartsWith(s, <<"&", "g", "t", ";">>) THEN <<">">> \o Unescape(SubSeq(s, 5, Len(s)))
  ELSE <<Head(s)>> \o Unescape(Tail(s))
\* Element e of the envelope carries the query value v, escaped.
CarriesEscaped(e, v) ==
  IF PyTrue(v) THEN ~e.nil /\ IsEscaped(e.text) /\ Unescape(e.text) = v
  ELSE e.nil

\* C14 (as claimed): title, number, text and the token all reach the envelope
\* with &, < and > escaped.
C14_AllEscaped ==
  rq.calls >= 1
  => /\ CarriesEscaped(soap_body.SearchTitlu, args.title)
     /\ CarriesEscaped(soap_body.SearchNumar, args.number)
     /\ CarriesEscaped(soap_body.SearchText, args.text)
     /\ IsEscaped(soap_body.tokenKey)

\* C14 (amended): title, number and text reach the envelope with &, < and >
\* escaped, so that reading the element back gives the query value; the token
\* is written into tokenKey as get_cached_token() returned it.
C14_QueryStringsEscaped ==
  rq.calls >= 1
  => /\ CarriesEscaped(soap_body.SearchTitlu, args.title)
     /\ CarriesEscaped(soap_body.SearchNumar, args.number)
     /\ CarriesEscaped(soap_body.SearchText, args.text)
     /\ soap_body.tokenKey = rq.token

\* The spec's title: <s>& went upstream as &lt;s&gt;&amp;.
C14_Witness ==
  /\ rq.calls >= 1
  /\ args.title = <<"<", "s", ">", "&">>
  /\ soap_body.SearchTitlu.text
       = <<"&", "l", "t", ";", "s", "&", "g", "t", ";", "&", "a", "m", "p", ";">>
  /\ soap_body.tokenKey = <<"t", "&", ">">>

\* C15: every record of a successful answer is the record of an upstream
\* fragment whose text_full is the fragment's extracted Text and whose
\* text_preview is the first min(PreviewLen, length) characters of text_full.
C15_PreviewDerivation ==
  (Done /\ reply.success)
  => /\ \A j \in 1..Len(reply.results) :
          \E i \in 1..Len(response.legi) :
            /\ reply.results[j] = Upstream[i]
            /\ reply.results[j].text_full = extract_tag(response.legi[i], "Text")
     /\ \A j \in 1..Len(reply.results) :
          LET r == reply.results[j]
              n == IF Len(r.text_full) < PreviewLen THEN Len(r.text_full) ELSE PreviewLen
          IN  /\ Len(r.text_preview) = n
              /\ \A k \in 1..n : r.text_preview[k] = r.text_full[k]

\* A long Text cut to PreviewLen characters, a short one kept whole, and a
\* record without Text, in one answer.
C15_Witness ==
  /\ Done /\ reply.success
  /\ Len(reply.results) = 3
  /\ Len(reply.results[1].text_full) = LongTextLen
  /\ Len(reply.results[1].text_preview) = PreviewLen
  /\ reply.results[2].text_full = <<"a", "b">>
  /\ reply.results[2].text_preview = <<"a", "b">>
  /\ reply.results[3].text_full = <<>>
  /\ reply.results[3].text_preview = <<>>

\* ------------------------------------------- claims on the workers, continued
\* C16 (as claimed): a request about to send its second Search call has
\* fetched a token itself after its invalidate.
C16_RetryOwnFetch ==
  \A t \in Threads :
    pc[t] = "do_search2"
    => \E i \in 1..Len(hist[t]) :
         /\ hist[t][i].ev = "invalidate"
         /\ \E j \in (i + 1)..Len(hist[t]) : hist[t][j].ev = "fetch"

\* C17 (as claimed): a /token request whose get_cached_token() call returned
\* a token is answered success = true with that token.
C17_TokenAnswersSuccess ==
  \A t \in Threads :
    (Answered(t, "token") /\ Count(t, "fetch_fail") = 0)
    => /\ answer[t].success
       /\ answer[t].code = 200
       /\ answer[t].token # None

\* C18: whenever the token lock is free, the cached token and its expiry are
\* both unset or both set.
C18_PairConsistent ==
  token_lock = "free"
  => (token_cache.token = None <=> token_cache.expires_at = None)

\* A worker has invalidated, another fetch has been stored since, and the lock
\* is free with both fields set.
C18_Witness ==
  /\ token_lock = "free"
  /\ token_cache.token # None /\ token_cache.expires_at # None
  /\ \E t \in Threads : Count(t, "invalidate") = 1

\* Where a worker waits for the lock, where it holds it, and where it waits
\* for upstream.
LockPcs == {"gct_lock", "gnt_lock", "inv_lock", "t_lock"}
CriticalPcs == {"gct_check", "gnt_set_token", "gnt_set_exp", "inv_set_token",
                "inv_set_exp", "t_expires"}
UpstreamPcs == {"gnt_post", "do_search1", "do_search2"}

\* C19: a worker holds the lock only inside one of the with blocks, never
\* during an upstream call, never while it asks for the lock and never after
\* its handler returned; the holder can always take its next step; and a
\* worker in a handler can always step unless it waits for a lock that
\* another worker holds - so no state is a deadlock on the lock.
C19_LockDiscipline ==
  /\ token_lock \in Threads \cup {"free"}
  /\ \A t \in Threads :
       /\ token_lock = t <=> pc[t] \in CriticalPcs
       /\ pc[t] \in UpstreamPcs \cup LockPcs => token_lock # t
       /\ token_lock = t => ENABLED Step(t)
       /\ pc[t] # "idle"
          => \/ ENABLED Step(t)
             \/ pc[t] \in LockPcs /\ token_lock \in Threads \ {t}

\* One worker waits for the lock while the other is inside invalidate_token().
C19_Witness ==
  \E t, u \in Threads :
    /\ pc[t] \in LockPcs
    /\ token_lock = u
    /\ pc[u] = "inv_set_exp"
    /\ ~ENABLED Step(t)

\* C20: as long as upstream has never answered GetToken with the same token
\* twice, a request about to send its second Search call holds a token other
\* than the one its refused first call sent.
C20_RetryTokenDiffers ==
  \A t \in Threads :
    (pc[t] = "do_search2" /\ issued # Repeated)
    => \A i \in 1..Len(hist[t]) :
         (hist[t][i].ev = "search" /\ hist[t][i].tok # None) => token[t] # hist[t][i].tok

\* The retry goes out with a token another request stored after the
\* invalidate: served from the cache, and still not the refused one.
C20_Witness ==
  \E t \in Threads :
    /\ pc[t] = "do_search2"
    /\ issued # Repeated
    /\ LastEv(t).ev = "hit"
    /\ Count(t, "invalidate") = 1

====
